---------------------------- MODULE Spec2Model ----------------------------
(***************************************************************************)
(* The Camelot-wheel harmonic transition engine of rerz/musicstuff:        *)
(* keys and cyclic tonic arithmetic (camelot.rs), the transition catalog   *)
(* (camelot/transition.rs), and graph construction, path search, neighbour *)
(* lookup and clique enumeration (camelot/search.rs).                      *)
(***************************************************************************)
EXTENDS Integers, Sequences, FiniteSets, TLC

VARIABLES
    pc,                     \* "idle", "called", "search", "returned", "done", "panic"
    SCALE_TRANSITION_GRAPH, \* the LazyLock<ScaleTransitions> of search.rs
    ret,                    \* the last completed call of a pure operation
    source, target,         \* arguments of the running ScaleTransitions::path
    min_heap,               \* the BinaryHeap<Path> of multi_path_dijkstra
    paths,                  \* the Vec<Path> of accepted solutions
    result                  \* the Vec<Key> returned by ScaleTransitions::path

vars == <<pc, SCALE_TRANSITION_GRAPH, ret, source, target, min_heap, paths, result>>

---------------------------------------------------------------------------
(* Bounds of the model.                                                    *)

\* isize is modelled IsizeBits wide (two's complement); 2^6 and 2^64 are
\* both 4 modulo 12, so wrapped sums land on the same tonics.
IsizeBits == 6
\* Texts handed to Key::from_str are at most MaxStrLen characters long.
MaxStrLen == 3

IsizeMin == -(2 ^ (IsizeBits - 1))
IsizeMax == (2 ^ (IsizeBits - 1)) - 1
Isize == IsizeMin .. IsizeMax

\* Characters the decoded texts are drawn from.
Chars == {"0", "1", "2", "3", "5", "A", "B", "C"}

RECURSIVE StringsOfLen(_)
StringsOfLen(n) ==
    IF n = 0 THEN {<<>>}
    ELSE {Append(s, c) : s \in StringsOfLen(n - 1), c \in Chars}

Strings == UNION {StringsOfLen(n) : n \in 0 .. MaxStrLen}

---------------------------------------------------------------------------
(* camelot.rs: Mode and Key.                                               *)

Mode == {"Minor", "Major"}

\* enum Mode { Minor = 0, Major = 1 }, the discriminants order the modes.
ModeDiscriminant(mode) == IF mode = "Minor" THEN 0 ELSE 1

swap(mode) == IF mode = "Minor" THEN "Major" ELSE "Minor"

scale(tonic, mode) == [tonic |-> tonic, mode |-> mode]

\* Rust's % on signed integers truncates toward zero.
Rem(num, modulus) ==
    IF num >= 0 THEN num % modulus ELSE -((-num) % modulus)

mod_cyclic(num, modulus) == Rem(Rem(num, modulus) + modulus, modulus)

\* Two's-complement wrap of a sum into isize.
WrapIsize(x) == ((x - IsizeMin) % (2 ^ IsizeBits)) + IsizeMin

swap_kind(self) == [self EXCEPT !.mode = swap(self.mode)]

\* (self.tonic as isize) + amount overflows isize.
change_index_overflows(self, amount) ==
    self.tonic + amount > IsizeMax \/ self.tonic + amount < IsizeMin

\* The key change_index returns when the addition is not overflow-checked
\* (a wrapped sum) or does not overflow.
change_index(self, amount) ==
    [self EXCEPT !.tonic = mod_cyclic(WrapIsize(self.tonic + amount), 12)]

\* derive(Ord) on Key: by tonic, then by mode.
KeyLess(a, b) ==
    \/ a.tonic < b.tonic
    \/ a.tonic = b.tonic /\ ModeDiscriminant(a.mode) < ModeDiscriminant(b.mode)

make_standard_scale ==
    [i \in 1 .. 24 |->
        scale((i - 1) \div 2, IF (i - 1) % 2 = 0 THEN "Minor" ELSE "Major")]

Keys == {make_standard_scale[i] : i \in 1 .. 24}

---------------------------------------------------------------------------
(* camelot.rs: impl FromStr for Key.                                       *)

\* The alternatives of the first capture group, in the order of the regex.
NumberAlternatives ==
    << <<"1">>, <<"2">>, <<"3">>, <<"4">>, <<"5">>, <<"6">>, <<"7">>, <<"8">>,
       <<"9">>, <<"1", "0">>, <<"1", "1">>, <<"1", "2">> >>

DigitValue(c) ==
    CASE c = "0" -> 0 [] c = "1" -> 1 [] c = "2" -> 2 [] c = "3" -> 3
      [] c = "4" -> 4 [] c = "5" -> 5 [] c = "6" -> 6 [] c = "7" -> 7
      [] c = "8" -> 8 [] c = "9" -> 9

RECURSIVE ParseUsize(_)
ParseUsize(digits) ==
    IF digits = <<>> THEN 0
    ELSE 10 * ParseUsize(SubSeq(digits, 1, Len(digits) - 1))
            + DigitValue(digits[Len(digits)])

\* Mode::from_str: Ok(mode) for "A" and "B", Err(InvalidScaleString) otherwise.
ModeFromStr(s) ==
    CASE s = <<"A">> -> [tag |-> "Ok", mode |-> "Minor"]
      [] s = <<"B">> -> [tag |-> "Ok", mode |-> "Major"]
      [] OTHER -> [tag |-> "Err", mode |-> "Minor"]

\* re.captures(s): the alternatives whose match lets ([AB])$ match the rest.
\* The pattern is anchored at both ends, so at most one alternative does.
Captures(s) ==
    {i \in 1 .. Len(NumberAlternatives) :
        /\ Len(s) = Len(NumberAlternatives[i]) + 1
        /\ SubSeq(s, 1, Len(s) - 1) = NumberAlternatives[i]
        /\ s[Len(s)] \in {"A", "B"}}

NoKey == scale(0, "Minor")

\* Key::from_str. Every step after the regex is an unwrap: a text the
\* regex rejects makes captures(s) None, and unwrapping None panics.
KeyFromStr(s) ==
    IF Captures(s) = {} THEN [tag |-> "Panic", key |-> NoKey]
    ELSE LET i == CHOOSE j \in Captures(s) : TRUE
             number == ParseUsize(NumberAlternatives[i])
             letter == ModeFromStr(<<s[Len(s)]>>)
         IN IF letter.tag = "Ok"
              THEN [tag |-> "Ok", key |-> scale(number - 1, letter.mode)]
              ELSE [tag |-> "Panic", key |-> NoKey]

---------------------------------------------------------------------------
(* camelot/transition.rs.                                                  *)

KT(kind, amount) == [kind |-> kind, amount |-> amount]

harmonic_transitions ==
    << KT("Vertical", 0), KT("Diagonal", 0), KT("MajorToMinor", 0),
       KT("FlatToMinor", 0), KT("ChangeIndex", 1), KT("ChangeIndex", 2),
       KT("ChangeIndex", 7), KT("ChangeIndex", -1), KT("ChangeIndex", -2),
       KT("ChangeIndex", -7) >>

Catalog == {harmonic_transitions[i] : i \in 1 .. Len(harmonic_transitions)}

\* A plausible slip: Diagonal shifts by +1 from either mode.
make_transition_SameDiagonal(scl, transition) ==
    CASE transition.kind = "Vertical" -> swap_kind(scl)
      [] transition.kind = "ChangeIndex" -> change_index(scl, transition.amount)
      [] transition.kind = "Diagonal" -> change_index(swap_kind(scl), 1)
      [] transition.kind = "FlatToMinor" /\ scl.mode = "Minor" ->
            change_index(swap_kind(scl), -4)
      [] transition.kind = "FlatToMinor" /\ scl.mode = "Major" ->
            change_index(swap_kind(scl), 4)
      [] transition.kind = "MajorToMinor" /\ scl.mode = "Minor" ->
            change_index(swap_kind(scl), 3)
      [] transition.kind = "MajorToMinor" /\ scl.mode = "Major" ->
            change_index(swap_kind(scl), -3)

make_transition(scl, transition) ==
    CASE transition.kind = "Vertical" -> swap_kind(scl)
      [] transition.kind = "ChangeIndex" -> change_index(scl, transition.amount)
      [] transition.kind = "Diagonal" /\ scl.mode = "Major" ->
            change_index(swap_kind(scl), 1)
      [] transition.kind = "Diagonal" /\ scl.mode = "Minor" ->
            change_index(swap_kind(scl), -1)
      [] transition.kind = "FlatToMinor" /\ scl.mode = "Minor" ->
            change_index(swap_kind(scl), -4)
      [] transition.kind = "FlatToMinor" /\ scl.mode = "Major" ->
            change_index(swap_kind(scl), 4)
      [] transition.kind = "MajorToMinor" /\ scl.mode = "Minor" ->
            change_index(swap_kind(scl), 3)
      [] transition.kind = "MajorToMinor" /\ scl.mode = "Major" ->
            change_index(swap_kind(scl), -3)

---------------------------------------------------------------------------
(* camelot/search.rs: harmonic_transitions_from.                           *)

\* Vec::sort on keys: the ascending arrangement under derive(Ord). Equal
\* keys are identical, so the stable merge sort and this insertion sort
\* return the same sequence.
RECURSIVE InsertSorted(_, _)
InsertSorted(sorted, key) ==
    IF sorted = <<>> THEN <<key>>
    ELSE IF KeyLess(key, Head(sorted)) THEN <<key>> \o sorted
    ELSE <<Head(sorted)>> \o InsertSorted(Tail(sorted), key)

RECURSIVE SortKeys(_)
SortKeys(v) ==
    IF v = <<>> THEN <<>>
    ELSE InsertSorted(SortKeys(SubSeq(v, 1, Len(v) - 1)), v[Len(v)])

\* A plausible slip: the collected vector is returned without sorting it.
harmonic_transitions_from_Unsorted(scl) ==
    [i \in 1 .. Len(harmonic_transitions) |->
        make_transition(scl, harmonic_transitions[i])] \o <<scl>>

harmonic_transitions_from(scl) ==
    SortKeys([i \in 1 .. Len(harmonic_transitions) |->
                 make_transition(scl, harmonic_transitions[i])] \o <<scl>>)

---------------------------------------------------------------------------
(* camelot/search.rs: the graph and its lazily built shared instance.      *)

\* index.get(&key).unwrap() on the HashMap<Key, NodeIndex>.
IndexGet(index, key) == (CHOOSE p \in index : p[1] = key)[2]

\* A plausible slip: an edge is added only between keys not yet connected,
\* which drops the parallel edges.
make_scale_transition_graph_Dedup ==
    LET nodes == make_standard_scale
        transitions == harmonic_transitions
        scale_to_index == {<<nodes[i], i - 1>> : i \in 1 .. Len(nodes)}
        all == [e \in 1 .. Len(nodes) * Len(transitions) |->
                  LET scl == nodes[((e - 1) \div Len(transitions)) + 1]
                      transition == transitions[((e - 1) % Len(transitions)) + 1]
                  IN [a |-> IndexGet(scale_to_index, scl),
                      b |-> IndexGet(scale_to_index, make_transition(scl, transition)),
                      weight |-> transition]]
        fresh(e) == \A d \in 1 .. e - 1 :
                        {all[d].a, all[d].b} # {all[e].a, all[e].b}
        kept == SelectSeq([e \in 1 .. Len(all) |-> e], fresh)
    IN [graph |-> [nodes |-> nodes,
                   edges |-> [i \in 1 .. Len(kept) |-> all[kept[i]]]],
        index |-> scale_to_index]

\* A plausible slip: the nodes are added but the edge loop never runs.
make_scale_transition_graph_NoEdges ==
    LET nodes == make_standard_scale
    IN [graph |-> [nodes |-> nodes, edges |-> <<>>],
        index |-> {<<nodes[i], i - 1>> : i \in 1 .. Len(nodes)}]

\* Nodes are added in the order of make_standard_scale (NodeIndex 0..23);
\* edge number e is added for key (e-1) div 10 and transition (e-1) mod 10,
\* the order of the two nested loops.
make_scale_transition_graph ==
    LET nodes == make_standard_scale
        transitions == harmonic_transitions
        scale_to_index == {<<nodes[i], i - 1>> : i \in 1 .. Len(nodes)}
    IN [graph |->
          [nodes |-> nodes,
           edges |->
             [e \in 1 .. Len(nodes) * Len(transitions) |->
                LET scl == nodes[((e - 1) \div Len(transitions)) + 1]
                    transition == transitions[((e - 1) % Len(transitions)) + 1]
                IN [a |-> IndexGet(scale_to_index, scl),
                    b |-> IndexGet(scale_to_index, make_transition(scl, transition)),
                    weight |-> transition]]],
        index |-> scale_to_index]

\* LazyLock::new: nothing is built before the first dereference.
LazyNew ==
    [once |-> FALSE,
     value |-> [graph |-> [nodes |-> <<>>, edges |-> <<>>], index |-> {}]]

\* Dereferencing SCALE_TRANSITION_GRAPH: the first use builds the graph.
LazyForce(lazy) ==
    IF lazy.once THEN lazy
    ELSE [once |-> TRUE, value |-> make_scale_transition_graph]

\* graph.node_weight(node).unwrap()
node_weight(graph, node) == graph.nodes[node + 1]

\* graph.edges(node) of an undirected petgraph Graph: the edges added with
\* node as their first endpoint, latest first, then those added with node
\* as their second endpoint, latest first (self-loops only once); target()
\* is the endpoint that is not node.
Edges(graph, node) ==
    LET n == Len(graph.edges)
        latestFirst == [i \in 1 .. n |-> n + 1 - i]
        outgoing == SelectSeq(latestFirst, LAMBDA e : graph.edges[e].a = node)
        incoming == SelectSeq(latestFirst,
                        LAMBDA e : graph.edges[e].b = node /\ graph.edges[e].a # node)
    IN [i \in 1 .. Len(outgoing) |->
            [target |-> graph.edges[outgoing[i]].b,
             weight |-> graph.edges[outgoing[i]].weight]]
       \o [i \in 1 .. Len(incoming) |->
            [target |-> graph.edges[incoming[i]].a,
             weight |-> graph.edges[incoming[i]].weight]]

---------------------------------------------------------------------------
(* camelot/search.rs: struct Path and the BinaryHeap<Path>.                *)

NoTransition == KT("None", 0)

\* A plausible slip: the comparison is not reversed, which turns the
\* max-heap of the standard library into a max-cost-first frontier.
PathLe_Unreversed(x, y) == x.cost <= y.cost

\* x <= y under impl Ord for Path, which compares other.cost with self.cost.
PathLe(x, y) == y.cost <= x.cost

\* Heap positions are counted from 0 as in the Vec behind the BinaryHeap.
At(data, pos) == data[pos + 1]

\* BinaryHeap::sift_up(start, pos): the element at pos moves up while it
\* is greater than its parent.
RECURSIVE sift_up_from(_, _, _, _)
sift_up_from(data, element, start, pos) ==
    IF pos > start /\ ~PathLe(element, At(data, (pos - 1) \div 2))
      THEN sift_up_from([data EXCEPT ![pos + 1] = At(data, (pos - 1) \div 2)],
                        element, start, (pos - 1) \div 2)
      ELSE [data EXCEPT ![pos + 1] = element]

sift_up(data, start, pos) == sift_up_from(data, At(data, pos), start, pos)

\* BinaryHeap::sift_down_to_bottom(pos): the hole moves down to a leaf along
\* the greater children (the right one when they compare equal), then the
\* element is sifted back up.
RECURSIVE sift_down_hole(_, _, _, _)
sift_down_hole(data, element, start, hole) ==
    LET end == Len(data)
        child == 2 * hole + 1
    IN IF end >= 2 /\ child <= end - 2
         THEN LET c == IF PathLe(At(data, child), At(data, child + 1))
                         THEN child + 1 ELSE child
              IN sift_down_hole([data EXCEPT ![hole + 1] = At(data, c)],
                                element, start, c)
         ELSE IF child = end - 1
           THEN sift_up_from([data EXCEPT ![hole + 1] = At(data, child)],
                             element, start, child)
           ELSE sift_up_from(data, element, start, hole)

sift_down_to_bottom(data, pos) == sift_down_hole(data, At(data, pos), pos, pos)

\* BinaryHeap::push
HeapPush(data, item) == sift_up(Append(data, item), 0, Len(data))

\* BinaryHeap::pop on a non-empty heap: the last element replaces the root,
\* which is returned, and is sifted down.
HeapPop(data) ==
    LET last == data[Len(data)]
        rest == SubSeq(data, 1, Len(data) - 1)
    IN IF rest = <<>> THEN [item |-> last, data |-> <<>>]
       ELSE [item |-> rest[1],
             data |-> sift_down_to_bottom([rest EXCEPT ![1] = last], 0)]

\* A plausible slip: the first frontier entry already lists the source,
\* which the loop then pushes a second time.
InitialPath_WithSource(src) ==
    [cost |-> 0, node |-> src, transition |-> NoTransition,
     path |-> <<src>>, transition_path |-> <<>>]

\* The entry pushed before the loop of multi_path_dijkstra.
InitialPath(src) ==
    [cost |-> 0, node |-> src, transition |-> NoTransition,
     path |-> <<>>, transition_path |-> <<>>]

\* The popped entry after its node and its transition have been appended.
Visit(path) ==
    [path EXCEPT !.path = Append(path.path, path.node),
                 !.transition_path =
                    IF path.transition # NoTransition
                      THEN Append(path.transition_path, path.transition)
                      ELSE path.transition_path]

\* The for loop over graph.edges(path.node): one push per incident edge.
RECURSIVE PushEdges(_, _, _, _)
PushEdges(data, path, edges, i) ==
    IF i > Len(edges) THEN data
    ELSE PushEdges(HeapPush(data, [cost |-> path.cost + 1,
                                   node |-> edges[i].target,
                                   transition |-> edges[i].weight,
                                   transition_path |-> path.transition_path,
                                   path |-> path.path]),
                   path, edges, i + 1)

---------------------------------------------------------------------------
(* camelot/search.rs: ScaleTransitions::cliques.                           *)

\* SimpleGraph::from(graph): the adjacency sets of the underlying simple
\* graph, labels dropped and parallel edges collapsed.
SimpleGraph(graph) ==
    [n \in 0 .. Len(graph.nodes) - 1 |->
        {m \in 0 .. Len(graph.nodes) - 1 :
            /\ m # n
            /\ \E e \in 1 .. Len(graph.edges) :
                  {graph.edges[e].a, graph.edges[e].b} = {n, m}}]

\* Bron-Kerbosch: the maximal cliques extending R with candidates P and
\* excluded nodes X.
RECURSIVE bron_kerbosch_rec(_, _, _, _)
bron_kerbosch_rec(adj, R, P, X) ==
    IF P = {} THEN (IF X = {} THEN {R} ELSE {})
    ELSE LET v == CHOOSE u \in P : TRUE
         IN bron_kerbosch_rec(adj, R \cup {v}, P \cap adj[v], X \cap adj[v])
              \cup bron_kerbosch_rec(adj, R, P \ {v}, X \cup {v})

bron_kerbosch(adj) == bron_kerbosch_rec(adj, {}, DOMAIN adj, {})

---------------------------------------------------------------------------
(* The state machine.                                                      *)

NoCall == [op |-> "none"]

Init ==
    /\ pc = "idle"
    /\ SCALE_TRANSITION_GRAPH = LazyNew
    /\ ret = NoCall
    /\ source = NoKey
    /\ target = NoKey
    /\ min_heap = <<>>
    /\ paths = <<>>
    /\ result = <<>>

search_vars == <<source, target, min_heap, paths, result>>

\* One call of change_index: with overflow checks (a debug build) an
\* overflowing addition panics, without them (a release build) it wraps.
ChangeIndexCall(self, amount, overflow_checks) ==
    IF overflow_checks /\ change_index_overflows(self, amount)
      THEN [tag |-> "Panic", key |-> NoKey]
      ELSE [tag |-> "Ok", key |-> change_index(self, amount)]

\* Key::from_str(s)
Decode(s) ==
    /\ pc = "idle"
    /\ pc' = "called"
    /\ ret' = [op |-> "from_str", s |-> s, out |-> KeyFromStr(s)]
    /\ UNCHANGED <<SCALE_TRANSITION_GRAPH, search_vars>>

\* key.change_index(a).change_index(b)
ChangeIndexTwice(key, a, b, overflow_checks) ==
    /\ pc = "idle"
    /\ pc' = "called"
    /\ LET first == ChangeIndexCall(key, a, overflow_checks)
           second == IF first.tag = "Ok"
                       THEN ChangeIndexCall(first.key, b, overflow_checks)
                       ELSE first
       IN ret' = [op |-> "change_index", key |-> key, a |-> a, b |-> b,
                  first |-> first, second |-> second]
    /\ UNCHANGED <<SCALE_TRANSITION_GRAPH, search_vars>>

\* make_transition(make_transition(key, t1), t2)
MakeTransitionTwice(key, t1, t2) ==
    /\ pc = "idle"
    /\ pc' = "called"
    /\ ret' = [op |-> "make_transition", key |-> key, t1 |-> t1, t2 |-> t2,
               mid |-> make_transition(key, t1),
               back |-> make_transition(make_transition(key, t1), t2)]
    /\ UNCHANGED <<SCALE_TRANSITION_GRAPH, search_vars>>

\* harmonic_transitions_from(key)
Neighbors(key) ==
    /\ pc = "idle"
    /\ pc' = "called"
    /\ ret' = [op |-> "harmonic_transitions_from", key |-> key,
               out |-> harmonic_transitions_from(key)]
    /\ UNCHANGED <<SCALE_TRANSITION_GRAPH, search_vars>>

\* SCALE_TRANSITION_GRAPH.cliques()
Cliques ==
    /\ pc = "idle"
    /\ pc' = "called"
    /\ SCALE_TRANSITION_GRAPH' = LazyForce(SCALE_TRANSITION_GRAPH)
    /\ ret' = [op |-> "cliques",
               out |-> bron_kerbosch(
                         SimpleGraph(SCALE_TRANSITION_GRAPH'.value.graph))]
    /\ UNCHANGED search_vars

\* ScaleTransitions::path(src, tgt) up to the loop of multi_path_dijkstra:
\* the shared graph is dereferenced, both keys are looked up and the first
\* entry is pushed.
PathCall(src, tgt) ==
    /\ pc = "idle"
    /\ pc' = "search"
    /\ SCALE_TRANSITION_GRAPH' = LazyForce(SCALE_TRANSITION_GRAPH)
    /\ source' = src
    /\ target' = tgt
    /\ min_heap' = HeapPush(<<>>,
          InitialPath(IndexGet(SCALE_TRANSITION_GRAPH'.value.index, src)))
    /\ paths' = <<>>
    /\ result' = <<>>
    /\ UNCHANGED ret

\* One iteration of `while let Some(mut path) = min_heap.pop()`, called
\* with n solutions wanted; an empty heap ends the loop.
SearchIteration(n) ==
    LET graph == SCALE_TRANSITION_GRAPH.value.graph
        target_idx == IndexGet(SCALE_TRANSITION_GRAPH.value.index, target)
    IN IF min_heap = <<>>
         THEN /\ pc' = "returned"
              /\ UNCHANGED <<min_heap, paths>>
         ELSE LET popped == HeapPop(min_heap)
                  path == Visit(popped.item)
                  accepted == path.node = target_idx
                  found == IF accepted THEN Append(paths, path) ELSE paths
              IN /\ paths' = found
                 /\ IF accepted /\ Len(found) >= n
                      THEN /\ pc' = "returned"
                           /\ min_heap' = popped.data
                      ELSE /\ pc' = "search"
                           /\ min_heap' = PushEdges(popped.data, path,
                                              Edges(graph, path.node), 1)

\* ScaleTransitions::path asks multi_path_dijkstra for one path.
SearchStep ==
    /\ pc = "search"
    /\ SearchIteration(1)
    /\ UNCHANGED <<SCALE_TRANSITION_GRAPH, ret, source, target, result>>

\* The rest of ScaleTransitions::path: the first path is unwrapped (a panic
\* when there is none) and its nodes are mapped to their keys.
PathReturn ==
    /\ pc = "returned"
    /\ IF paths = <<>>
         THEN /\ pc' = "panic"
              /\ result' = <<>>
         ELSE /\ pc' = "done"
              /\ result' = [i \in 1 .. Len(paths[1].path) |->
                              node_weight(SCALE_TRANSITION_GRAPH.value.graph,
                                          paths[1].path[i])]
    /\ UNCHANGED <<SCALE_TRANSITION_GRAPH, ret, source, target, min_heap, paths>>

\* The caller takes the value returned and is free to call again.
Return ==
    /\ pc \in {"called", "done"}
    /\ pc' = "idle"
    /\ ret' = NoCall
    /\ source' = NoKey
    /\ target' = NoKey
    /\ min_heap' = <<>>
    /\ paths' = <<>>
    /\ result' = <<>>
    /\ UNCHANGED SCALE_TRANSITION_GRAPH

\* A call starts only when the caller is idle: the guard is tested before
\* the arguments are drawn.
Idle == pc = "idle"

\* The key model and the transition rules.
Next ==
    \/ Idle /\ \E s \in Strings : Decode(s)
    \/ Idle /\ \E key \in Keys, a \in Isize, b \in Isize, checks \in BOOLEAN :
                  ChangeIndexTwice(key, a, b, checks)
    \/ Idle /\ \E key \in Keys, t1 \in Catalog, t2 \in Catalog :
                  MakeTransitionTwice(key, t1, t2)
    \/ Idle /\ \E key \in Keys : Neighbors(key)
    \/ Return

Spec == Init /\ [][Next]_vars

\* The queries on the shared graph.
NextGraph ==
    \/ Idle /\ \E key \in Keys, t1 \in Catalog, t2 \in Catalog :
                  MakeTransitionTwice(key, t1, t2)
    \/ Idle /\ \E key \in Keys : Neighbors(key)
    \/ Cliques
    \/ Return

SpecGraph == Init /\ [][NextGraph]_vars

NextPath ==
    \/ Idle /\ \E src \in Keys, tgt \in Keys : PathCall(src, tgt)
    \/ SearchStep
    \/ PathReturn
    \/ Idle /\ \E key \in Keys : Neighbors(key)
    \/ Cliques
    \/ Return

SpecPath == Init /\ [][NextPath]_vars

---------------------------------------------------------------------------
(* Notions the properties are stated with.                                 *)

\* The text is a number 1..12 followed by exactly one letter A or B.
WellFormed(s) ==
    \E i \in 1 .. Len(NumberAlternatives), letter \in {"A", "B"} :
        s = Append(NumberAlternatives[i], letter)

\* Some catalog transition leads from one key to the other.
Adjacent(k1, k2) ==
    \E t \in Catalog : make_transition(k1, t) = k2 \/ make_transition(k2, t) = k1

\* The number of transitions of a shortest chain of adjacent keys from a
\* key of S to k2 when S holds the keys n transitions from the start, and
\* Cardinality(Keys) when no chain reaches k2.
RECURSIVE DistanceFrom(_, _, _)
DistanceFrom(S, k2, n) ==
    IF k2 \in S THEN n
    ELSE IF n >= Cardinality(Keys) THEN n
    ELSE DistanceFrom(S \cup {k \in Keys : \E w \in S : Adjacent(w, k)}, k2, n + 1)

Distance(k1, k2) == DistanceFrom({k1}, k2, 0)

\* The transition the claim names as the reverse of t.
ReverseOf(t) ==
    IF t.kind = "ChangeIndex" THEN KT("ChangeIndex", -t.amount) ELSE t

\* The paths a first-in-first-out frontier holds at each cost, in the order
\* they are discovered, and the first of them that ends at tgt.
RECURSIVE ExpandLevel(_, _, _)
ExpandLevel(graph, level, i) ==
    IF i > Len(level) THEN <<>>
    ELSE LET edges == Edges(graph, level[i][Len(level[i])])
         IN [j \in 1 .. Len(edges) |-> Append(level[i], edges[j].target)]
              \o ExpandLevel(graph, level, i + 1)

RECURSIVE FirstDiscoveredFrom(_, _, _)
FirstDiscoveredFrom(graph, level, tgt) ==
    LET hits == {i \in 1 .. Len(level) : level[i][Len(level[i])] = tgt}
    IN IF hits # {}
         THEN level[CHOOSE i \in hits : \A j \in hits : i <= j]
         ELSE FirstDiscoveredFrom(graph, ExpandLevel(graph, level, 1), tgt)

FirstDiscoveredPath(st, src, tgt) ==
    LET nodes == FirstDiscoveredFrom(st.graph,
                    << <<IndexGet(st.index, src)>> >>, IndexGet(st.index, tgt))
    IN [i \in 1 .. Len(nodes) |-> node_weight(st.graph, nodes[i])]

\* Every key has Degree incident edges and is at most two transitions
\* from any other, so a search expands at most 1 + Degree + Degree^2
\* entries, each expansion replacing one entry by Degree.
Degree == 2 * Len(harmonic_transitions)
FrontierBound == 1 + (Degree - 1) * (1 + Degree + Degree * Degree)

\* The shared graph has been built.
Built == SCALE_TRANSITION_GRAPH.once

---------------------------------------------------------------------------
(* The properties.                                                         *)

\* C1: decoding a text that is not a number 1..12 followed by one letter
\* A or B returns the InvalidScaleString error. The code unwraps the
\* missing regex match instead, so this is violated.
C1_DecodeRejectsWithError ==
    (ret.op = "from_str" /\ ~WellFormed(ret.s)) => ret.out.tag = "Err"

\* C2: the path returned for (source, target) has as many transitions as
\* the graph distance of the two keys.
C2_PathIsShortest ==
    pc = "done" => Len(result) - 1 = Distance(source, target)

C2_Witness ==
    pc = "done" /\ source # target /\ ~Adjacent(source, target) /\ Len(result) = 3

\* C3: the path returned is a walk from source to target: it starts at
\* source, ends at target and consecutive keys are one catalog transition
\* apart.
C3_PathIsWalk ==
    pc = "done" =>
        /\ Len(result) >= 1
        /\ result[1] = source
        /\ result[Len(result)] = target
        /\ \A i \in 1 .. Len(result) - 1 : Adjacent(result[i], result[i + 1])

C3_Witness ==
    /\ pc = "done"
    /\ Len(result) = 3
    /\ result[1] = source /\ result[3] = target
    /\ Adjacent(result[1], result[2]) /\ Adjacent(result[2], result[3])

\* C4: every catalog transition is undone by a catalog transition: the same
\* one for Vertical, Diagonal, FlatToMinor and MajorToMinor, ChangeIndex(-n)
\* for ChangeIndex(n).
C4_TransitionsReversible ==
    (ret.op = "make_transition" /\ ret.t2 = ReverseOf(ret.t1)) =>
        /\ ret.t2 \in Catalog
        /\ ret.back = ret.key

C4_Witness ==
    /\ ret.op = "make_transition"
    /\ ret.t1 = KT("Diagonal", 0) /\ ret.t2 = ret.t1
    /\ ret.key.mode = "Major"
    /\ ret.mid # ret.key
    /\ ret.back = ret.key

\* C5: harmonic_transitions_from(k) is strictly ascending (by tonic, then
\* mode) and holds exactly k and the keys one catalog transition from k.
C5_NeighborsSortedExact ==
    ret.op = "harmonic_transitions_from" =>
        /\ \A i \in 1 .. Len(ret.out) - 1 : KeyLess(ret.out[i], ret.out[i + 1])
        /\ {ret.out[i] : i \in 1 .. Len(ret.out)}
             = {ret.key} \cup {make_transition(ret.key, t) : t \in Catalog}

C5_Witness ==
    /\ ret.op = "harmonic_transitions_from"
    /\ ret.key = scale(0, "Major")
    /\ Len(ret.out) = Cardinality(Catalog) + 1
    /\ ret.out[1] = scale(0, "Minor")
    /\ ret.out[2] = ret.key
    /\ ret.out[Len(ret.out)] = scale(11, "Major")

\* C6: change_index is a group action of the integers modulo 12: for all
\* amounts a and b, change_index(a).change_index(b) is change_index(a+b),
\* change_index(0) is the identity, the mode is kept and the tonic stays in
\* 0..11. The addition of tonic and amount overflows for amounts next to
\* the largest isize, so this is violated.
C6_ChangeIndexGroupAction ==
    (ret.op = "change_index" /\ ret.a + ret.b \in Isize) =>
        /\ ret.first.tag = "Ok"
        /\ ret.second.tag = "Ok"
        /\ ret.second.key.tonic = (ret.key.tonic + ret.a + ret.b) % 12
        /\ ret.second.key = change_index(ret.key, ret.a + ret.b)
        /\ ret.a = 0 => ret.first.key = ret.key
        /\ ret.second.key.mode = ret.key.mode
        /\ ret.second.key.tonic \in 0 .. 11

\* C7: once built, the shared graph has a node for each of the 24 keys and
\* 24 edges of each of the 10 catalog labels (240 edges), and no query
\* changes it.
C7_GraphShape ==
    LET graph == SCALE_TRANSITION_GRAPH.value.graph
    IN /\ Len(graph.nodes) = 24
       /\ {graph.nodes[i] : i \in 1 .. Len(graph.nodes)}
            = {scale(tonic, mode) : tonic \in 0 .. 11, mode \in Mode}
       /\ Len(graph.edges) = 240
       /\ \A t \in Catalog :
            Cardinality({e \in 1 .. Len(graph.edges) : graph.edges[e].weight = t}) = 24
       /\ Cardinality(Catalog) = 10

C7_GraphBuiltOnceAndFixed ==
    /\ [](Built => C7_GraphShape)
    /\ [][Built => SCALE_TRANSITION_GRAPH' = SCALE_TRANSITION_GRAPH]_vars

C7_Witness ==
    Built /\ pc = "done" /\ Len(result) = 2 /\ C7_GraphShape

\* C8: every maximal clique of the simple graph under the transition graph
\* has exactly three keys: cliques() reports only triangles, every key has a
\* neighbour, every two adjacent keys have a common neighbour and no four
\* keys are pairwise adjacent.
C8_OnlyTriangles ==
    ret.op = "cliques" =>
        LET adj == SimpleGraph(SCALE_TRANSITION_GRAPH.value.graph)
            N == DOMAIN adj
        IN /\ ret.out # {}
           /\ \A c \in ret.out : Cardinality(c) = 3
           /\ \A n \in N : adj[n] # {}
           /\ \A n \in N : \A m \in adj[n] : adj[n] \cap adj[m] # {}
           /\ \A n \in N : \A m \in adj[n] : \A l \in adj[n] \cap adj[m] :
                 adj[n] \cap adj[m] \cap adj[l] = {}

C8_Witness ==
    /\ ret.op = "cliques"
    /\ Built
    /\ \E c \in ret.out : Cardinality(c) = 3 /\ 0 \in c

\* C9: the search for one path ends with exactly one accepted solution: the
\* heap is never empty when the loop pops and the unwrap of the first path
\* never panics; every iteration either returns or leaves the heap larger,
\* and the heap stays within FrontierBound, so the loop ends.
C9_NeverEmpty ==
    /\ pc # "panic"
    /\ pc = "search" => min_heap # <<>>
    /\ pc \in {"returned", "done"} => Len(paths) = 1
    /\ Len(min_heap) <= FrontierBound

C9_SearchTerminatesWithOnePath ==
    /\ []C9_NeverEmpty
    /\ [][pc = "search" =>
            \/ pc' = "returned" /\ Len(paths') = 1
            \/ pc' = "search" /\ Len(min_heap') > Len(min_heap)]_vars

C9_Witness ==
    pc = "done" /\ Len(paths) = 1 /\ Len(min_heap) > 240

\* C10 as stated: equal-cost frontier entries are popped in the order they
\* were pushed, so the path returned is the first-discovered one of minimum
\* cost. The binary heap does not keep that order, so this is violated.
C10_ReturnsFirstDiscovered ==
    pc = "done" =>
        result = FirstDiscoveredPath(SCALE_TRANSITION_GRAPH.value, source, target)

\* C10 as amended: ties are broken by the position of the entries in the
\* binary heap, not by discovery order: no entry costs less than its parent
\* in the heap, so each pop takes an entry of minimum cost, and the path
\* returned costs as much as the first-discovered one without having to be it.
C10_PopsMinimumCost ==
    /\ \A i \in 2 .. Len(min_heap) : min_heap[i \div 2].cost <= min_heap[i].cost
    /\ pc = "done" =>
          Len(result) = Len(FirstDiscoveredPath(SCALE_TRANSITION_GRAPH.value,
                                                 source, target))

C10_Witness ==
    /\ pc = "done"
    /\ result # FirstDiscoveredPath(SCALE_TRANSITION_GRAPH.value, source, target)
    /\ Len(result) = Len(FirstDiscoveredPath(SCALE_TRANSITION_GRAPH.value,
                                              source, target))

=============================================================================
